---- MODULE Spec2Model ----
(***************************************************************************)
(* sjtu::linked_hashmap<int, int> (src/linked_hashmap.hpp): a hash table   *)
(* of bucket chains plus a doubly-linked list that keeps insertion order.  *)
(* Two container instances live on one heap of nodes.                      *)
(***************************************************************************)
EXTENDS Integers, Sequences, FiniteSets, TLC

\* ------------------------------------------------------------ bounds
\* keys 1..Prefill are inserted into container 1 before the explored run
Prefill == 11
\* number of container operations in one explored run
MaxOps == 3

\* ------------------------------------------------------------ constants
INITIAL_CAPACITY == 16
NULL == 0
DefaultVal == 0

MapIds == {1, 2}
\* keys the explored operations use: with key 1 they collide in bucket 1 of a
\* 16-bucket table, and 1 and 33 still collide after one doubling
OpKeys == {17, 33}
Vals == {1, 2}
PrefillKeys == 1 .. Prefill

\* heap:  the allocated nodes, by address: [data, prev, next]
\* maps:  the containers: [table, table_size, element_count, head, tail]
\* ghost: per container, the pairs of the inserts that created its entries,
\*        in the order of those inserts (history, read by the claims only)
\* last:  the last operation and what it returned (history)
\* ops:   the number of operations so far
VARIABLES heap, maps, ghost, last, ops

vars == <<heap, maps, ghost, last, ops>>

\* ------------------------------------------------------------ heap
\* the address `new Node` returns: the lowest free one
NewNode(h) ==
  CHOOSE n \in 1 .. (Cardinality(DOMAIN h) + 1) :
    n \notin DOMAIN h /\ \A k \in 1 .. (n - 1) : k \in DOMAIN h

\* a constructed node at address n
Put(h, n, rec) == [x \in (DOMAIN h) \cup {n} |-> IF x = n THEN rec ELSE h[x]]

\* delete of the nodes in dead
Free(h, dead) == [x \in (DOMAIN h) \ dead |-> h[x]]

\* Node() and Node(const value_type &)
SentinelNode == [data |-> <<>>, prev |-> NULL, next |-> NULL]
DataNode(key, val) == [data |-> <<key, val>>, prev |-> NULL, next |-> NULL]

\* iterator(Node *n, const linked_hashmap *m), and iterator()
Cursor(n, m) == [node |-> n, map |-> m]
NullCursor == [node |-> NULL, map |-> NULL]

\* ------------------------------------------------------------ helpers
hasher(key) == key

get_bucket_index(mp, key) == hasher(key) % mp.table_size

init_table(mp, size) ==
  [mp EXCEPT !.table_size = size, !.table = [i \in 0 .. (size - 1) |-> <<>>]]

\* the nodes from cur up to tail, following next
RECURSIVE list_from(_, _, _)
list_from(h, cur, tail) ==
  IF cur = tail THEN <<>> ELSE <<cur>> \o list_from(h, h[cur].next, tail)

Range(s) == {s[i] : i \in 1 .. Len(s)}

clear_list(w, m) ==
  LET mp == w.maps[m]
      dead == Range(list_from(w.heap, w.heap[mp.head].next, mp.tail))
      h1 == Free(w.heap, dead)
      h2 == [h1 EXCEPT ![mp.head].next = mp.tail]
      h3 == [h2 EXCEPT ![mp.tail].prev = mp.head]
  IN  [w EXCEPT !.heap = h3]

\* the loop of rehash: one new chain entry per list node, prepended
RECURSIVE rehash_loop(_, _, _, _, _)
rehash_loop(h, current, tail, new_table, new_size) ==
  IF current = tail THEN new_table
  ELSE LET index == hasher(h[current].data[1]) % new_size
       IN  rehash_loop(h, h[current].next, tail,
                       [new_table EXCEPT ![index] = <<current>> \o @], new_size)

\* rehash that starts its loop at the second node of the list
rehash_skips_first(w, m, fail) ==
  LET mp == w.maps[m]
      new_size == mp.table_size * 2
      empty_table == [i \in 0 .. (new_size - 1) |-> <<>>]
      first == w.heap[mp.head].next
      new_table == rehash_loop(w.heap, IF first = mp.tail THEN first ELSE w.heap[first].next,
                               mp.tail, empty_table, new_size)
  IN  IF fail \in {"new_table", "rehash_bucket"} THEN w
      ELSE [w EXCEPT !.maps[m].table = new_table,
                     !.maps[m].table_size = new_size]

\* rehash that doubles table_size before it allocates
rehash_resizes_first(w, m, fail) ==
  LET mp == w.maps[m]
      new_size == mp.table_size * 2
      empty_table == [i \in 0 .. (new_size - 1) |-> <<>>]
      new_table == rehash_loop(w.heap, w.heap[mp.head].next, mp.tail,
                               empty_table, new_size)
      w0 == [w EXCEPT !.maps[m].table_size = new_size]
  IN  IF fail = "new_table" THEN w0
      ELSE IF fail = "rehash_bucket" /\ w.heap[mp.head].next # mp.tail THEN w0
      ELSE [w EXCEPT !.maps[m].table = new_table,
                     !.maps[m].table_size = new_size]

\* fail names the allocation that throws, "none" when all succeed
rehash(w, m, fail) ==
  LET mp == w.maps[m]
      new_size == mp.table_size * 2
      empty_table == [i \in 0 .. (new_size - 1) |-> <<>>]
      new_table == rehash_loop(w.heap, w.heap[mp.head].next, mp.tail,
                               empty_table, new_size)
  IN  IF fail = "new_table" THEN w
      ELSE IF fail = "rehash_bucket" /\ w.heap[mp.head].next # mp.tail THEN w
      ELSE [w EXCEPT !.maps[m].table = new_table,
                     !.maps[m].table_size = new_size]

\* a scan that looks at the first entry of the chain only
chain_find_first_only(h, chain, key) ==
  IF chain = <<>> THEN NULL
  ELSE IF h[Head(chain)].data[1] = key THEN Head(chain)
  ELSE NULL

\* the scan of one chain by key equality
RECURSIVE chain_find(_, _, _)
chain_find(h, chain, key) ==
  IF chain = <<>> THEN NULL
  ELSE IF h[Head(chain)].data[1] = key THEN Head(chain)
  ELSE chain_find(h, Tail(chain), key)

find_node(w, m, key) ==
  LET mp == w.maps[m]
      index == get_bucket_index(mp, key)
  IN  chain_find(w.heap, mp.table[index], key)

\* a splice after the head sentinel instead of before the tail sentinel
insert_to_list_at_head(w, m, node) ==
  LET head == w.maps[m].head
      h1 == [w.heap EXCEPT ![node].next = w.heap[head].next]
      h2 == [h1 EXCEPT ![node].prev = head]
      h3 == [h2 EXCEPT ![h2[head].next].prev = node]
      h4 == [h3 EXCEPT ![head].next = node]
  IN  [w EXCEPT !.heap = h4]

\* a splice before the tail sentinel that leaves tail.prev as it was
insert_to_list_keeps_tail_prev(w, m, node) ==
  LET tail == w.maps[m].tail
      h1 == [w.heap EXCEPT ![node].prev = w.heap[tail].prev]
      h2 == [h1 EXCEPT ![node].next = tail]
      h3 == [h2 EXCEPT ![h2[tail].prev].next = node]
  IN  [w EXCEPT !.heap = h3]

insert_to_list(w, m, node) ==
  LET tail == w.maps[m].tail
      h1 == [w.heap EXCEPT ![node].prev = w.heap[tail].prev]
      h2 == [h1 EXCEPT ![node].next = tail]
      h3 == [h2 EXCEPT ![h2[tail].prev].next = node]
      h4 == [h3 EXCEPT ![tail].prev = node]
  IN  [w EXCEPT !.heap = h4]

\* an unlink that leaves the prev link of the successor as it was
remove_from_list_keeps_prev(w, node) ==
  [w EXCEPT !.heap[w.heap[node].prev].next = w.heap[node].next]

remove_from_list(w, node) ==
  LET h1 == [w.heap EXCEPT ![w.heap[node].prev].next = w.heap[node].next]
      h2 == [h1 EXCEPT ![h1[node].next].prev = h1[node].prev]
  IN  [w EXCEPT !.heap = h2]

insert_to_table(w, m, node) ==
  LET index == get_bucket_index(w.maps[m], w.heap[node].data[1])
  IN  [w EXCEPT !.maps[m].table[index] = <<node>> \o @]

\* a chain without its first entry whose key is equal to key
RECURSIVE chain_remove(_, _, _)
chain_remove(h, chain, key) ==
  IF chain = <<>> THEN <<>>
  ELSE IF h[Head(chain)].data[1] = key THEN Tail(chain)
  ELSE <<Head(chain)>> \o chain_remove(h, Tail(chain), key)

\* a removal that leaves the chain as it is
remove_from_table_keeps_entry(w, m, key) == w

remove_from_table(w, m, key) ==
  LET index == get_bucket_index(w.maps[m], key)
  IN  [w EXCEPT !.maps[m].table[index] = chain_remove(w.heap, @, key)]

\* ------------------------------------------------------------ operations
\* linked_hashmap(): the two sentinels and a table of INITIAL_CAPACITY
construct(w, m) ==
  LET head == NewNode(w.heap)
      h1 == Put(w.heap, head, SentinelNode)
      tail == NewNode(h1)
      h2 == Put(h1, tail, SentinelNode)
      h3 == [h2 EXCEPT ![head].next = tail]
      h4 == [h3 EXCEPT ![tail].prev = head]
      mp == init_table([table |-> <<>>, table_size |-> 0, element_count |-> 0,
                        head |-> head, tail |-> tail], INITIAL_CAPACITY)
  IN  [heap |-> h4,
       maps |-> [x \in (DOMAIN w.maps) \cup {m} |-> IF x = m THEN mp ELSE w.maps[x]]]

\* the threshold test with > in place of >=
over_load_strict(mp) == mp.element_count * 4 > mp.table_size * 3

\* element_count >= table_size * LOAD_FACTOR, with LOAD_FACTOR = 3/4
over_load(mp) == mp.element_count * 4 >= mp.table_size * 3

\* the result of insert: the world, the node of the returned iterator, the
\* returned flag, whether rehash ran, and the exception thrown
InsertResult(w, node, inserted, grew, err) ==
  [w |-> w, node |-> node, inserted |-> inserted, grew |-> grew, err |-> err]

\* insert that assigns the value of a present key
insert_overwrites(w, m, key, val, fail) ==
  LET existing == find_node(w, m, key)
      grow == over_load(w.maps[m])
      w1 == IF grow THEN rehash(w, m, fail) ELSE w
      new_node == NewNode(w1.heap)
      w2 == [w1 EXCEPT !.heap = Put(@, new_node, DataNode(key, val))]
      w5 == [insert_to_table(insert_to_list(w2, m, new_node), m, new_node)
               EXCEPT !.maps[m].element_count = @ + 1]
  IN  IF existing # NULL
        THEN InsertResult([w EXCEPT !.heap[existing].data = <<key, val>>],
                          existing, FALSE, FALSE, "none")
      ELSE InsertResult(w5, new_node, TRUE, grow, "none")

\* insert without the lookup of the key
insert_unchecked(w, m, key, val, fail) ==
  LET grow == over_load(w.maps[m])
      w1 == IF grow THEN rehash(w, m, fail) ELSE w
      new_node == NewNode(w1.heap)
      w2 == [w1 EXCEPT !.heap = Put(@, new_node, DataNode(key, val))]
      w5 == [insert_to_table(insert_to_list(w2, m, new_node), m, new_node)
               EXCEPT !.maps[m].element_count = @ + 1]
  IN  InsertResult(w5, new_node, TRUE, grow, "none")

insert(w, m, key, val, fail) ==
  LET existing == find_node(w, m, key)
      grow == over_load(w.maps[m])
      w1 == IF grow THEN rehash(w, m, fail) ELSE w
      new_node == NewNode(w1.heap)
      w2 == [w1 EXCEPT !.heap = Put(@, new_node, DataNode(key, val))]
      w3 == insert_to_list(w2, m, new_node)
      w4 == insert_to_table(w3, m, new_node)
      w5 == [w4 EXCEPT !.maps[m].element_count = @ + 1]
  IN  IF existing # NULL THEN InsertResult(w, existing, FALSE, FALSE, "none")
      ELSE IF grow /\ fail \in {"new_table", "rehash_bucket"}
        THEN InsertResult(w1, NULL, FALSE, FALSE, "bad_alloc")
      ELSE IF fail = "new_node" THEN InsertResult(w1, NULL, FALSE, grow, "bad_alloc")
      ELSE IF fail = "insert_bucket" THEN InsertResult(w3, NULL, FALSE, grow, "bad_alloc")
      ELSE InsertResult(w5, new_node, TRUE, grow, "none")

\* erase without the decrement of element_count
erase_keeps_count(w, m, pos) ==
  LET mp == w.maps[m]
      w1 == remove_from_table(w, m, w.heap[pos.node].data[1])
      w2 == remove_from_list(w1, pos.node)
      w3 == [w2 EXCEPT !.heap = Free(@, {pos.node})]
  IN  IF pos.map # m \/ pos.node = mp.tail \/ pos.node = mp.head \/ pos.node = NULL
        THEN [w |-> w, err |-> "invalid_iterator"]
        ELSE [w |-> w3, err |-> "none"]

\* erase that decrements element_count before it checks the position
erase_counts_first(w, m, pos) ==
  LET mp == w.maps[m]
      w0 == [w EXCEPT !.maps[m].element_count = @ - 1]
      w1 == remove_from_table(w0, m, w.heap[pos.node].data[1])
      w2 == remove_from_list(w1, pos.node)
      w3 == [w2 EXCEPT !.heap = Free(@, {pos.node})]
  IN  IF pos.map # m \/ pos.node = mp.tail \/ pos.node = mp.head \/ pos.node = NULL
        THEN [w |-> w0, err |-> "invalid_iterator"]
        ELSE [w |-> w3, err |-> "none"]

\* erase that takes the entry out of its bucket chain and leaves its node in
\* the order list
erase_keeps_in_list(w, m, pos) ==
  LET mp == w.maps[m]
      w1 == remove_from_table(w, m, w.heap[pos.node].data[1])
      w4 == [w1 EXCEPT !.maps[m].element_count = @ - 1]
  IN  IF pos.map # m \/ pos.node = mp.tail \/ pos.node = mp.head \/ pos.node = NULL
        THEN [w |-> w, err |-> "invalid_iterator"]
        ELSE [w |-> w4, err |-> "none"]

\* erase(iterator pos): the world and the exception thrown
erase(w, m, pos) ==
  LET mp == w.maps[m]
      w1 == remove_from_table(w, m, w.heap[pos.node].data[1])
      w2 == remove_from_list(w1, pos.node)
      w3 == [w2 EXCEPT !.heap = Free(@, {pos.node})]
      w4 == [w3 EXCEPT !.maps[m].element_count = @ - 1]
  IN  IF pos.map # m \/ pos.node = mp.tail \/ pos.node = mp.head \/ pos.node = NULL
        THEN [w |-> w, err |-> "invalid_iterator"]
        ELSE [w |-> w4, err |-> "none"]

\* a clear that leaves element_count as it was
clear_keeps_count(w, m) ==
  LET w1 == clear_list(w, m)
      size == w1.maps[m].table_size
  IN  [w1 EXCEPT !.maps[m].table = [i \in 0 .. (size - 1) |-> <<>>]]

clear(w, m) ==
  LET w1 == clear_list(w, m)
      size == w1.maps[m].table_size
  IN  [w1 EXCEPT !.maps[m].table = [i \in 0 .. (size - 1) |-> <<>>],
                 !.maps[m].element_count = 0]

\* the copy loop inserting a default value in place of the value of the source
RECURSIVE copy_loop_default_values(_, _, _, _)
copy_loop_default_values(w, m, current, other_tail) ==
  IF current = other_tail THEN w
  ELSE copy_loop_default_values(
         insert(w, m, w.heap[current].data[1], DefaultVal, "none").w,
         m, w.heap[current].next, other_tail)

\* the loop of the copy operations: insert of every entry of the source list
RECURSIVE copy_loop(_, _, _, _)
copy_loop(w, m, current, other_tail) ==
  IF current = other_tail THEN w
  ELSE copy_loop(insert(w, m, w.heap[current].data[1], w.heap[current].data[2], "none").w,
                 m, w.heap[current].next, other_tail)

\* an assignment without the test for self-assignment
assign_unguarded(w, m, other) ==
  LET w1 == clear(w, m)
      w2 == [w1 EXCEPT !.maps[m] = init_table(@, w1.maps[other].table_size)]
  IN  copy_loop(w2, m, w2.heap[w2.maps[other].head].next, w2.maps[other].tail)

\* operator=(const linked_hashmap &other)
assign(w, m, other) ==
  LET w1 == clear(w, m)
      w2 == [w1 EXCEPT !.maps[m] = init_table(@, w1.maps[other].table_size)]
  IN  IF m = other THEN w
      ELSE copy_loop(w2, m, w2.heap[w2.maps[other].head].next, w2.maps[other].tail)

\* ~linked_hashmap()
destroy(w, m) ==
  LET w1 == clear_list(w, m)
      mp == w1.maps[m]
  IN  [heap |-> Free(w1.heap, {mp.head, mp.tail}),
       maps |-> [x \in (DOMAIN w1.maps) \ {m} |-> w1.maps[x]]]

\* linked_hashmap(const linked_hashmap &other)
copy_construct(w, m, other) ==
  LET w1 == construct(w, m)
      w2 == [w1 EXCEPT !.maps[m] = init_table(@, w1.maps[other].table_size)]
  IN  copy_loop(w2, m, w2.heap[w2.maps[other].head].next, w2.maps[other].tail)

\* an operator[] that inserts nothing for a key it does not find
index_no_insert(w, m, key) ==
  [w |-> w, node |-> find_node(w, m, key), grew |-> FALSE]

\* T & operator[](const Key &key): the world and the node whose value is returned
index(w, m, key) ==
  LET node == find_node(w, m, key)
      result == insert(w, m, key, DefaultVal, "none")
  IN  IF node = NULL THEN [w |-> result.w, node |-> result.node, grew |-> result.grew]
      ELSE [w |-> w, node |-> node, grew |-> FALSE]

\* an at that inserts a default value for a key it does not find
at_inserts(w, m, key) ==
  LET r == index(w, m, key)
  IN  [w |-> r.w, node |-> r.node, err |-> "none"]

\* T & at(const Key &key): the world, the node whose value is returned and
\* the exception thrown
at(w, m, key) ==
  LET node == find_node(w, m, key)
  IN  IF node = NULL THEN [w |-> w, node |-> NULL, err |-> "index_out_of_bound"]
      ELSE [w |-> w, node |-> node, err |-> "none"]

\* const T & at(const Key &key) const
at_const(w, m, key) ==
  LET node == find_node(w, m, key)
  IN  IF node = NULL THEN [w |-> w, node |-> NULL, err |-> "index_out_of_bound"]
      ELSE [w |-> w, node |-> node, err |-> "none"]

\* const T & operator[](const Key &key) const
index_const(w, m, key) ==
  LET node == find_node(w, m, key)
  IN  IF node = NULL THEN [w |-> w, node |-> NULL, err |-> "index_out_of_bound"]
      ELSE [w |-> w, node |-> node, err |-> "none"]

\* `map[key] = val`, `map.at(key) = val`: the write through the reference
\* that operator[] or at returned for node
store(w, node, val) == [w EXCEPT !.heap[node].data[2] = val]

begin(w, m) == Cursor(w.heap[w.maps[m].head].next, m)

end(w, m) == Cursor(w.maps[m].tail, m)

empty(w, m) == w.maps[m].element_count = 0

size(w, m) == w.maps[m].element_count

count(w, m, key) == IF find_node(w, m, key) # NULL THEN 1 ELSE 0

find(w, m, key) ==
  LET node == find_node(w, m, key)
  IN  IF node # NULL THEN Cursor(node, m) ELSE end(w, m)

\* iterator::operator++(): the cursor afterwards and the exception thrown
advance(w, it) ==
  IF it.node = NULL \/ it.node = w.maps[it.map].tail
    THEN [it |-> it, err |-> "invalid_iterator"]
    ELSE [it |-> Cursor(w.heap[it.node].next, it.map), err |-> "none"]

\* iterator::operator++(int): the cursor afterwards, the copy returned and
\* the exception thrown
advance_post(w, it) ==
  IF it.node = NULL \/ it.node = w.maps[it.map].tail
    THEN [it |-> it, temp |-> NullCursor, err |-> "invalid_iterator"]
    ELSE [it |-> Cursor(w.heap[it.node].next, it.map), temp |-> it, err |-> "none"]

\* const_iterator::operator++()
const_advance(w, it) ==
  IF it.node = NULL \/ it.node = w.maps[it.map].tail
    THEN [it |-> it, err |-> "invalid_iterator"]
    ELSE [it |-> Cursor(w.heap[it.node].next, it.map), err |-> "none"]

\* const_iterator::operator++(int)
const_advance_post(w, it) ==
  IF it.node = NULL \/ it.node = w.maps[it.map].tail
    THEN [it |-> it, temp |-> NullCursor, err |-> "invalid_iterator"]
    ELSE [it |-> Cursor(w.heap[it.node].next, it.map), temp |-> it, err |-> "none"]

\* a decrement that tests for the null cursor only
retreat_past_first(w, it) ==
  IF it.node = NULL
    THEN [it |-> it, err |-> "invalid_iterator"]
    ELSE [it |-> Cursor(w.heap[it.node].prev, it.map), err |-> "none"]

\* iterator::operator--(): the cursor afterwards and the exception thrown
retreat(w, it) ==
  IF it.node = NULL \/ w.heap[it.node].prev = w.maps[it.map].head
    THEN [it |-> it, err |-> "invalid_iterator"]
    ELSE [it |-> Cursor(w.heap[it.node].prev, it.map), err |-> "none"]

\* iterator::operator--(int)
retreat_post(w, it) ==
  IF it.node = NULL \/ w.heap[it.node].prev = w.maps[it.map].head
    THEN [it |-> it, temp |-> NullCursor, err |-> "invalid_iterator"]
    ELSE [it |-> Cursor(w.heap[it.node].prev, it.map), temp |-> it, err |-> "none"]

\* const_iterator::operator--()
const_retreat(w, it) ==
  IF it.node = NULL \/ w.heap[it.node].prev = w.maps[it.map].head
    THEN [it |-> it, err |-> "invalid_iterator"]
    ELSE [it |-> Cursor(w.heap[it.node].prev, it.map), err |-> "none"]

\* const_iterator::operator--(int)
const_retreat_post(w, it) ==
  IF it.node = NULL \/ w.heap[it.node].prev = w.maps[it.map].head
    THEN [it |-> it, temp |-> NullCursor, err |-> "invalid_iterator"]
    ELSE [it |-> Cursor(w.heap[it.node].prev, it.map), temp |-> it, err |-> "none"]

\* the nodes the loop `for (it = --end(); it != begin(); --it)` and the read
\* of *it after it visit
RECURSIVE iterate_back(_, _, _)
iterate_back(w, it, stop) ==
  IF it = stop THEN <<it.node>>
  ELSE <<it.node>> \o iterate_back(w, retreat(w, it).it, stop)

\* the nodes a loop `for (it = begin(); it != end(); ++it)` visits
RECURSIVE iterate(_, _, _)
iterate(w, it, stop) ==
  IF it = stop THEN <<>> ELSE <<it.node>> \o iterate(w, advance(w, it).it, stop)

\* ------------------------------------------------------------ initial state
\* insert of (k, k) for k = from .. to, in increasing order
RECURSIVE insert_range(_, _, _, _)
insert_range(w, m, from, to) ==
  IF from > to THEN w
  ELSE insert_range(insert(w, m, from, from, "none").w, m, from + 1, to)

EmptyWorld == [heap |-> <<>>, maps |-> <<>>]

InitWorld ==
  insert_range(construct(construct(EmptyWorld, 1), 2), 1, 1, Prefill)

\* the last operation: its name, its container, the exception it threw, the
\* flag insert returned (for find: whether the key was found), whether rehash
\* ran, the position a failed erase was given, the source of a copy, the key
\* of the entry an erase removed (or of the entry an insert created right
\* after the erase of that key), and whether an insert was of that kind
NoOp == [op |-> "init", m |-> 0, err |-> "none", inserted |-> FALSE,
         grew |-> FALSE, pos |-> NullCursor, other |-> 0, key |-> -1,
         again |-> FALSE]

Init ==
  /\ heap = InitWorld.heap
  /\ maps = InitWorld.maps
  /\ ghost = [m \in MapIds |->
                IF m = 1 THEN [i \in 1 .. Prefill |-> <<i, i>>] ELSE <<>>]
  /\ last = NoOp
  /\ ops = 0

World == [heap |-> heap, maps |-> maps]

\* the keys of a sequence of key-value pairs
KeysOf(s) == {s[i][1] : i \in 1 .. Len(s)}

\* ------------------------------------------------------------ actions
\* a sequence of key-value pairs without the pair of key
RECURSIVE Without(_, _)
Without(s, key) ==
  IF s = <<>> THEN <<>>
  ELSE IF Head(s)[1] = key THEN Without(Tail(s), key)
  ELSE <<Head(s)>> \o Without(Tail(s), key)

\* a thrown exception ends the run: no caller in the repository catches one
Running == ops < MaxOps /\ last.err = "none"

\* the last operation erased the entry of key from container m
ErasedBefore(m, key) ==
  last.op = "erase" /\ last.err = "none" /\ last.m = m /\ last.key = key

Insert(m, key, val) ==
  /\ Running
  /\ LET r == insert(World, m, key, val, "none")
     IN  /\ heap' = r.w.heap
         /\ maps' = r.w.maps
         /\ last' = [NoOp EXCEPT !.op = "insert", !.m = m, !.inserted = r.inserted,
                                 !.grew = r.grew,
                                 !.again = ErasedBefore(m, key),
                                 !.key = IF ErasedBefore(m, key) THEN key ELSE -1]
  /\ ghost' = [ghost EXCEPT ![m] =
                 IF key \in KeysOf(@) THEN @ ELSE Append(@, <<key, val>>)]
  /\ ops' = ops + 1

\* the allocations of insert that can throw
FailPoints == {"new_table", "rehash_bucket", "new_node", "insert_bucket"}

\* an insert of an absent key in which the allocation named by fail throws
InsertFail(m, key, val, fail) ==
  /\ Running
  /\ find_node(World, m, key) = NULL
  /\ fail \in {"new_table", "rehash_bucket"} => over_load(maps[m])
  /\ LET r == insert(World, m, key, val, fail)
     IN  /\ heap' = r.w.heap
         /\ maps' = r.w.maps
         /\ last' = [NoOp EXCEPT !.op = "insert", !.m = m, !.err = r.err,
                                 !.grew = r.grew]
  /\ ghost' = ghost
  /\ ops' = ops + 1

Index(m, key) ==
  /\ Running
  /\ LET r == index(World, m, key)
     IN  /\ heap' = r.w.heap
         /\ maps' = r.w.maps
         /\ last' = [NoOp EXCEPT !.op = "index", !.m = m, !.grew = r.grew]
  /\ ghost' = [ghost EXCEPT ![m] =
                 IF key \in KeysOf(@) THEN @ ELSE Append(@, <<key, DefaultVal>>)]
  /\ ops' = ops + 1

\* the positions handed to erase on container m: the entries of the explored
\* keys, the first entry, end(), the head sentinel, the null cursors, and the
\* first entry and end() of the other container
Positions(m) ==
  {find(World, m, key) : key \in OpKeys}
    \cup {begin(World, m), end(World, m), Cursor(maps[m].head, m),
          NullCursor, Cursor(NULL, m)}
    \cup UNION {{begin(World, o), end(World, o)} : o \in MapIds \ {m}}

Erase(m, pos) ==
  /\ Running
  /\ LET r == erase(World, m, pos)
     IN  /\ heap' = r.w.heap
         /\ maps' = r.w.maps
         /\ last' = [NoOp EXCEPT !.op = "erase", !.m = m, !.err = r.err,
                                 !.pos = IF r.err = "none" THEN NullCursor ELSE pos,
                                 !.key = IF r.err = "none"
                                           THEN heap[pos.node].data[1] ELSE -1]
         /\ ghost' = [ghost EXCEPT ![m] =
                        IF r.err = "none" THEN Without(@, heap[pos.node].data[1]) ELSE @]
  /\ ops' = ops + 1

Clear(m) ==
  /\ Running
  /\ LET w == clear(World, m)
     IN  heap' = w.heap /\ maps' = w.maps
  /\ last' = [NoOp EXCEPT !.op = "clear", !.m = m]
  /\ ghost' = [ghost EXCEPT ![m] = <<>>]
  /\ ops' = ops + 1

Assign(m, other) ==
  /\ Running
  /\ LET w == assign(World, m, other)
     IN  heap' = w.heap /\ maps' = w.maps
  /\ last' = [NoOp EXCEPT !.op = "assign", !.m = m, !.other = other]
  /\ ghost' = [ghost EXCEPT ![m] = ghost[other]]
  /\ ops' = ops + 1

\* container m goes out of scope and is constructed again as a copy of other
CopyConstruct(m, other) ==
  /\ Running
  /\ m # other
  /\ LET w == copy_construct(destroy(World, m), m, other)
     IN  heap' = w.heap /\ maps' = w.maps
  /\ last' = [NoOp EXCEPT !.op = "copy", !.m = m, !.other = other]
  /\ ghost' = [ghost EXCEPT ![m] = ghost[other]]
  /\ ops' = ops + 1

Find(m, key) ==
  /\ Running
  /\ last' = [NoOp EXCEPT !.op = "find", !.m = m,
                          !.inserted = (find(World, m, key) # end(World, m))]
  /\ UNCHANGED <<heap, maps, ghost>>
  /\ ops' = ops + 1

\* at(key) on container m: a key the container does not hold ends the run
\* with index_out_of_bound
At(m, key) ==
  /\ Running
  /\ LET r == at(World, m, key)
     IN  /\ heap' = r.w.heap
         /\ maps' = r.w.maps
         /\ last' = [NoOp EXCEPT !.op = "at", !.m = m, !.err = r.err,
                                 !.key = key]
  /\ UNCHANGED ghost
  /\ ops' = ops + 1

\* ++it on a cursor that begin() or end() of container m returned; last.pos
\* is the cursor afterwards
Advance(m, pos) ==
  /\ Running
  /\ LET r == advance(World, pos)
     IN  last' = [NoOp EXCEPT !.op = "advance", !.m = m, !.err = r.err,
                             !.pos = r.it]
  /\ UNCHANGED <<heap, maps, ghost>>
  /\ ops' = ops + 1

\* --it on a cursor that begin() or end() of container m returned
Retreat(m, pos) ==
  /\ Running
  /\ LET r == retreat(World, pos)
     IN  last' = [NoOp EXCEPT !.op = "retreat", !.m = m, !.err = r.err,
                             !.pos = r.it]
  /\ UNCHANGED <<heap, maps, ghost>>
  /\ ops' = ops + 1

AllKeys == OpKeys \cup PrefillKeys

Next ==
  \/ \E m \in MapIds, key \in OpKeys, val \in Vals : Insert(m, key, val)
  \/ \E m \in MapIds, key \in OpKeys : Index(m, key)
  \/ \E m \in MapIds : \E pos \in Positions(m) : Erase(m, pos)
  \/ \E m \in MapIds : Clear(m)
  \/ \E m \in MapIds, other \in MapIds : Assign(m, other)
  \/ \E m \in MapIds, other \in MapIds : CopyConstruct(m, other)
  \/ \E m \in MapIds, key \in OpKeys : Find(m, key)

Spec == Init /\ [][Next]_vars

\* the same operations, and the checked access and the cursor steps
NextRead ==
  \/ Next
  \/ \E m \in MapIds, key \in OpKeys : At(m, key)
  \/ \E m \in MapIds : \E pos \in {begin(World, m), end(World, m)} : Advance(m, pos)
  \/ \E m \in MapIds : \E pos \in {begin(World, m), end(World, m)} : Retreat(m, pos)

SpecRead == Init /\ [][NextRead]_vars

\* the same operations, and inserts in which an allocation throws
NextFail ==
  \/ Next
  \/ \E m \in MapIds, key \in OpKeys, val \in Vals, fail \in FailPoints :
       InsertFail(m, key, val, fail)

SpecFail == Init /\ [][NextFail]_vars

\* ------------------------------------------------------------ observations
\* the order list of container m: its nodes from head.next up to tail
Order(w, m) == list_from(w.heap, w.heap[w.maps[m].head].next, w.maps[m].tail)

\* the bucket chains of container m from bucket i on, one after the other
RECURSIVE ChainsFrom(_, _, _)
ChainsFrom(w, m, i) ==
  IF i >= w.maps[m].table_size THEN <<>>
  ELSE w.maps[m].table[i] \o ChainsFrom(w, m, i + 1)

\* the nodes the bucket chains of container m reference
Referenced(w, m) == Range(ChainsFrom(w, m, 0))

\* the keys of a sequence of nodes
NodeKeys(w, s) == [i \in 1 .. Len(s) |-> w.heap[s[i]].data[1]]

\* the keys of a sequence of key-value pairs, in order
PairKeys(s) == [i \in 1 .. Len(s) |-> s[i][1]]

\* the keys inserted into container m and not erased since
Live(m) == KeysOf(ghost[m])

\* the value given by the insert that created the entry of a live key
Created(m, key) == (CHOOSE i \in 1 .. Len(ghost[m]) : ghost[m][i][1] = key)

NoRepeat(s) == \A i, j \in 1 .. Len(s) : s[i] = s[j] => i = j

\* ------------------------------------------------------------ claims
\* C1: the bucket index and the order list describe the same entries: every
\* node of the order list has exactly one bucket-chain entry, in bucket
\* hash(key) mod table_size, and every bucket-chain entry references a node of
\* the order list.
C1_Synchronized ==
  \A m \in MapIds :
    /\ DOMAIN maps[m].table = 0 .. (maps[m].table_size - 1)
    /\ NoRepeat(ChainsFrom(World, m, 0))
    /\ Referenced(World, m) = Range(Order(World, m))
    /\ \A i \in DOMAIN maps[m].table :
         \A j \in 1 .. Len(maps[m].table[i]) :
           i = hasher(heap[maps[m].table[i][j]].data[1]) % maps[m].table_size

\* an erase took an entry out of a bucket chain that held several
C1_Witness ==
  /\ last.op = "erase" /\ last.err = "none"
  /\ \E i \in DOMAIN maps[last.m].table : Len(maps[last.m].table[i]) >= 2

\* C2: iterating from begin() to end() by advance yields the keys in their
\* first-insertion order, which a re-insert of a present key does not change.
C2_InsertionOrder ==
  \A m \in MapIds :
    NodeKeys(World, iterate(World, begin(World, m), end(World, m)))
      = PairKeys(ghost[m])

\* a present key was inserted again into a container of several keys
C2_Witness ==
  /\ last.op = "insert" /\ ~last.inserted
  /\ Len(ghost[last.m]) >= 2

\* C3: after an allocation failure in insert, the nodes of the order list are
\* the nodes the bucket chains reference, and element_count is their number.
C3_FailureKeepsSync ==
  last.err = "bad_alloc" =>
    \A m \in MapIds :
      /\ Range(Order(World, m)) = Referenced(World, m)
      /\ maps[m].element_count = Cardinality(Referenced(World, m))

\* C4: insert of a present key returns the position of the existing entry and
\* the flag false, and changes neither the heap (values, links) nor the table,
\* table_size or element_count.
C4_ReinsertChangesNothing ==
  \A m \in MapIds :
    LET nodes == Range(Order(World, m))
    IN  \A key \in Live(m), val \in Vals :
          LET r == insert(World, m, key, val, "none")
          IN  /\ r.w.heap = heap
              /\ r.w.maps = maps
              /\ ~r.inserted
              /\ ~r.grew
              /\ r.node \in nodes
              /\ heap[r.node].data[1] = key

\* a present key was inserted again at the load-factor threshold
C4_Witness ==
  /\ last.op = "insert" /\ ~last.inserted
  /\ over_load(maps[last.m])

\* C5: find of a live key returns a position on the node of that key, whose
\* value is the one given by the insert that created the entry; find of any
\* other key returns end().
C5_FindCorrect ==
  \A m \in MapIds :
    LET nodes == Range(Order(World, m))
        live == Live(m)
    IN  \A key \in AllKeys :
          LET c == find(World, m, key)
          IN  IF key \in live
                THEN /\ c.map = m
                     /\ c.node \in nodes
                     /\ heap[c.node].data = ghost[m][Created(m, key)]
                ELSE c = end(World, m)

\* find found a key whose bucket chain holds several entries
C5_Witness ==
  /\ last.op = "find" /\ last.inserted
  /\ \E key \in OpKeys :
       /\ key \in Live(last.m)
       /\ Len(maps[last.m].table[get_bucket_index(maps[last.m], key)]) >= 2

\* C6: size() is the number of nodes of the order list and the number of keys
\* inserted and not erased; empty() holds exactly when that number is 0 and
\* exactly when begin() = end().
C6_SizeInvariant ==
  \A m \in MapIds :
    /\ size(World, m) = Len(Order(World, m))
    /\ size(World, m) = Len(ghost[m])
    /\ empty(World, m) <=> Len(Order(World, m)) = 0
    /\ empty(World, m) <=> begin(World, m) = end(World, m)

\* an erase emptied a container
C6_Witness ==
  /\ last.op = "erase" /\ last.err = "none"
  /\ empty(World, last.m)

\* C7: no two nodes of the order list and no two entries of a bucket chain
\* have equal keys; count(k) is 1 for a live key and 0 for any other.
C7_NoDuplicateKeys ==
  \A m \in MapIds :
    /\ NoRepeat(NodeKeys(World, Order(World, m)))
    /\ \A i \in DOMAIN maps[m].table : NoRepeat(NodeKeys(World, maps[m].table[i]))
    /\ LET live == Live(m)
       IN  \A key \in AllKeys :
             count(World, m, key) = IF key \in live THEN 1 ELSE 0

\* a present key was inserted again while its bucket chain held several entries
C7_Witness ==
  /\ last.op = "insert" /\ ~last.inserted
  /\ \E i \in DOMAIN maps[last.m].table : Len(maps[last.m].table[i]) >= 2

\* C8: an insert that grows the table keeps the order list and every stored
\* pair, appends only the new node, doubles table_size, and afterwards finds
\* every key that was live before, on the node it had.
C8_GrowthTransparent ==
  \A m \in MapIds, key \in OpKeys, val \in Vals :
    LET r == insert(World, m, key, val, "none")
        before == Order(World, m)
        after == Order(r.w, m)
    IN  r.grew =>
          /\ after = Append(before, r.node)
          /\ r.node \notin DOMAIN heap
          /\ \A n \in Range(before) : r.w.heap[n].data = heap[n].data
          /\ r.w.maps[m].table_size = 2 * maps[m].table_size
          /\ \A n \in Range(before) : find_node(r.w, m, heap[n].data[1]) = n

\* an insert grew a table that held colliding keys
C8_Witness ==
  /\ last.op = "insert" /\ last.inserted /\ last.grew
  /\ \E i \in DOMAIN maps[last.m].table : Len(maps[last.m].table[i]) >= 2

\* C9: element_count <= table_size * 0.75 in every state, a constructed
\* container has table_size 16, a copy has the table_size of its source, and
\* an insert of an absent key grows (doubling table_size) exactly when
\* element_count >= table_size * 0.75 before it.
C9_LoadFactor ==
  /\ \A m \in MapIds : maps[m].element_count * 4 <= maps[m].table_size * 3
  /\ ops = 0 => \A m \in MapIds : maps[m].table_size = INITIAL_CAPACITY
  /\ (last.op \in {"assign", "copy"} /\ last.other # last.m) =>
       maps[last.m].table_size = maps[last.other].table_size
  /\ \A m \in MapIds, key \in OpKeys, val \in Vals :
       LET r == insert(World, m, key, val, "none")
       IN  key \notin Live(m) =>
             /\ r.grew <=> maps[m].element_count * 4 >= maps[m].table_size * 3
             /\ r.w.maps[m].table_size =
                  IF r.grew THEN 2 * maps[m].table_size ELSE maps[m].table_size
             /\ r.w.maps[m].element_count * 4 <= r.w.maps[m].table_size * 3

\* an insert grew a table of 16 buckets to 32
C9_Witness ==
  /\ last.op = "insert" /\ last.grew
  /\ maps[last.m].table_size = 2 * INITIAL_CAPACITY

\* the positions erase on container m must refuse: end(), the head sentinel,
\* the null cursors, and positions of the other container (its end() and each
\* of its entries)
Refused(m) ==
  {end(World, m), Cursor(maps[m].head, m), NullCursor, Cursor(NULL, m)}
    \cup UNION {{end(World, o)} \cup {Cursor(n, o) : n \in Range(Order(World, o))} :
                  o \in MapIds \ {m}}

\* C10: erase of end(), of the head sentinel, of a null cursor or of a position
\* of another container fails with invalid_iterator and changes neither the
\* heap nor the table, table_size or element_count.
C10_EraseRefused ==
  \A m \in MapIds :
    \A pos \in Refused(m) :
      erase(World, m, pos) = [w |-> World, err |-> "invalid_iterator"]

\* erase refused the first entry of another container that holds the same keys
C10_Witness ==
  /\ last.op = "erase" /\ last.err = "invalid_iterator"
  /\ last.pos.map \in MapIds \ {last.m}
  /\ last.pos = begin(World, last.pos.map)
  /\ ghost[last.m] # <<>>
  /\ ghost[last.m] = ghost[last.pos.map]

\* no exception has ended the run: a further operation can be called. The
\* claims about what one more operation does are stated at these states.
Callable == last.err = "none"

\* the keys operator[], at and find are asked for in the access claims
AccessKeys == OpKeys \cup {1, 2}

\* the entries of container m the one-operation claims are stated at: the
\* first and the last entry of the order list and the entries of AccessKeys
Probes(m) ==
  LET order == Order(World, m)
  IN  {order[i] : i \in {1, Len(order)} \cap DOMAIN order}
        \cup {n \in Range(order) : heap[n].data[1] \in AccessKeys}

\* a sequence without its element x
RECURSIVE SeqWithout(_, _)
SeqWithout(s, x) ==
  IF s = <<>> THEN <<>>
  ELSE IF Head(s) = x THEN SeqWithout(Tail(s), x)
  ELSE <<Head(s)>> \o SeqWithout(Tail(s), x)

\* C11: erase of an entry (a probed one) leaves every other node of the
\* container live, with its key and value, in the same order and linked both
\* ways; ++ on a cursor at the former predecessor reaches the former
\* successor; and erase accepts a cursor at another (probed) entry.
C11_EraseKeepsOtherCursors ==
  Callable => \A m \in MapIds :
    LET order == Order(World, m)
        probes == Probes(m)
    IN  \A p \in probes :
          LET r == erase(World, m, Cursor(p, m))
              rest == SeqWithout(order, p)
          IN  /\ r.err = "none"
              /\ Range(rest) \subseteq DOMAIN r.w.heap
              /\ Order(r.w, m) = rest
              /\ \A n \in Range(rest) :
                   /\ r.w.heap[n].data = heap[n].data
                   /\ r.w.heap[n].prev \in DOMAIN r.w.heap
                   /\ r.w.heap[n].next \in DOMAIN r.w.heap
                   /\ r.w.heap[r.w.heap[n].next].prev = n
                   /\ r.w.heap[r.w.heap[n].prev].next = n
              /\ \A n \in probes \ {p} :
                   erase(r.w, m, Cursor(n, m)).err = "none"
              /\ heap[p].prev # maps[m].head =>
                   advance(r.w, Cursor(heap[p].prev, m))
                     = [it |-> Cursor(heap[p].next, m), err |-> "none"]

\* an erase removed the entry of an explored key and left several entries
C11_Witness ==
  /\ last.op = "erase" /\ last.err = "none"
  /\ last.key \in OpKeys
  /\ Len(ghost[last.m]) >= 2

\* the <<key, value>> pairs of container m in iteration order
Pairs(w, m) ==
  LET order == Order(w, m)
  IN  [i \in 1 .. Len(order) |-> w.heap[order[i]].data]

\* the nodes container m owns: its sentinels and the nodes of its order list
Owned(w, m) == {w.maps[m].head, w.maps[m].tail} \cup Range(Order(w, m))

\* container o and its nodes (owned) are in w2 what they are now
Untouched(w2, o, owned) ==
  /\ w2.maps[o] = maps[o]
  /\ \A n \in owned : n \in DOMAIN w2.heap /\ w2.heap[n] = heap[n]

\* C12: after a copy construction or copy assignment from another container
\* the copy iterates the same keys in the same order with equal values and
\* shares no node with the source; and an insert or operator[] of an explored
\* key, an erase of or a value store to a probed entry, or a clear on one
\* container leaves the other container's order list, values, bucket chains
\* and counters unchanged.
C12_CopyIndependent ==
  /\ (last.op \in {"assign", "copy"} /\ last.other # last.m) =>
       /\ Pairs(World, last.m) = Pairs(World, last.other)
       /\ Owned(World, last.m) \cap Owned(World, last.other) = {}
       /\ maps[last.m].element_count = maps[last.other].element_count
  /\ Callable => \A m \in MapIds :
       \A o \in MapIds \ {m} :
         LET owned == Owned(World, o)
         IN  /\ \A key \in OpKeys :
                  /\ \A val \in Vals :
                       Untouched(insert(World, m, key, val, "none").w, o, owned)
                  /\ Untouched(index(World, m, key).w, o, owned)
             /\ \A n \in Probes(m) :
                  /\ Untouched(erase(World, m, Cursor(n, m)).w, o, owned)
                  /\ \A val \in Vals : Untouched(store(World, n, val), o, owned)
             /\ Untouched(clear(World, m), o, owned)

\* a copy operation gave a container the several entries of the other one,
\* an explored key among them
C12_Witness ==
  /\ last.op \in {"assign", "copy"}
  /\ last.other # last.m
  /\ Len(ghost[last.m]) >= 2
  /\ KeysOf(ghost[last.m]) \cap OpKeys # {}

\* C13: the assignment of a container to itself changes nothing: the heap
\* (every node, its links, key and value, so every cursor taken earlier still
\* references a live node) and the container's table, table_size,
\* element_count and sentinels are what they were.
C13_SelfAssignNoOp ==
  \A m \in MapIds : assign(World, m, m) = World

\* a container that holds entries was assigned to itself
C13_Witness ==
  /\ last.op = "assign"
  /\ last.other = last.m
  /\ Len(Order(World, last.m)) >= 2
  /\ maps[last.m].element_count = Len(ghost[last.m])

\* C14: operator[] with a key the container does not hold creates exactly one
\* entry, with the default value, at the tail of the order list and in the
\* chain of its bucket, adds one to element_count, doubles the table first
\* exactly when the load threshold was reached, and returns the new entry;
\* with a key the container holds it returns the entry of that key and
\* changes nothing.
C14_IndexAccess ==
  Callable => \A m \in MapIds :
    \A key \in AccessKeys :
      LET r == index(World, m, key)
          mp == maps[m]
          mp2 == r.w.maps[m]
          found == find_node(World, m, key)
      IN  IF found = NULL
            THEN /\ r.node \in (DOMAIN r.w.heap) \ (DOMAIN heap)
                 /\ (DOMAIN r.w.heap) \ (DOMAIN heap) = {r.node}
                 /\ r.w.heap[r.node].data = <<key, DefaultVal>>
                 /\ Order(r.w, m) = Append(Order(World, m), r.node)
                 /\ \A n \in Range(Order(World, m)) : r.w.heap[n].data = heap[n].data
                 /\ find_node(r.w, m, key) = r.node
                 /\ mp2.element_count = mp.element_count + 1
                 /\ r.grew = over_load(mp)
                 /\ mp2.table_size = IF over_load(mp) THEN 2 * mp.table_size
                                                      ELSE mp.table_size
            ELSE /\ r.w = World
                 /\ r.node = found
                 /\ heap[r.node].data[1] = key

\* operator[] created an entry with the default value, growing the table first
C14_Witness ==
  /\ last.op = "index"
  /\ last.grew
  /\ maps[last.m].table_size = 2 * INITIAL_CAPACITY
  /\ \E i \in 1 .. Len(ghost[last.m]) :
       ghost[last.m][i][1] \in OpKeys /\ ghost[last.m][i][2] = DefaultVal

\* C15: at, the read-only at and the read-only operator[] with a key the
\* container does not hold throw index_out_of_bound and leave the heap and
\* the container as they were (nothing is inserted); with a key it holds they
\* return the entry of that key, also without any change.
C15_CheckedAccess ==
  Callable => \A m \in MapIds :
    \A key \in AccessKeys :
      \A r \in {at(World, m, key), at_const(World, m, key),
                index_const(World, m, key)} :
        /\ r.w = World
        /\ IF key \in Range(NodeKeys(World, Order(World, m)))
             THEN r.err = "none" /\ r.node # NULL /\ heap[r.node].data[1] = key
             ELSE r.err = "index_out_of_bound"

\* at was called with a key that a non-empty container does not hold
C15_Witness ==
  /\ last.op = "at"
  /\ last.err = "index_out_of_bound"
  /\ last.key \notin KeysOf(ghost[last.m])
  /\ maps[last.m].element_count >= 2

\* C16: clear leaves element_count 0, the two sentinels linked to each other,
\* every bucket chain empty, the nodes of the old entries freed and table_size
\* as it was; and a key inserted afterwards is created, found by lookup and
\* is the one entry iteration visits.
C16_Clear ==
  Callable => \A m \in MapIds :
    LET w == clear(World, m)
        mp == w.maps[m]
    IN  /\ mp.element_count = 0
        /\ mp.head = maps[m].head /\ mp.tail = maps[m].tail
        /\ w.heap[mp.head].next = mp.tail
        /\ w.heap[mp.tail].prev = mp.head
        /\ mp.table_size = maps[m].table_size
        /\ DOMAIN mp.table = 0 .. (mp.table_size - 1)
        /\ \A i \in DOMAIN mp.table : mp.table[i] = <<>>
        /\ DOMAIN w.heap = (DOMAIN heap) \ Range(Order(World, m))
        /\ \A key \in OpKeys :
             \A val \in Vals :
               LET r == insert(w, m, key, val, "none")
               IN  /\ r.inserted /\ r.err = "none"
                   /\ r.w.heap[r.node].data = <<key, val>>
                   /\ find(r.w, m, key) = Cursor(r.node, m)
                   /\ iterate(r.w, begin(r.w, m), end(r.w, m)) = <<r.node>>
                   /\ size(r.w, m) = 1

\* a container whose table had grown was cleared
C16_Witness ==
  /\ last.op = "clear"
  /\ maps[last.m].table_size = 2 * INITIAL_CAPACITY
  /\ maps[last.m].element_count = 0
  /\ ghost[last.m] = <<>>

\* the results of the four increments and of the four decrements of a cursor
Advanced(it) ==
  {advance(World, it), const_advance(World, it),
   [x \in {"it", "err"} |-> advance_post(World, it)[x]],
   [x \in {"it", "err"} |-> const_advance_post(World, it)[x]]}

Retreated(it) ==
  {retreat(World, it), const_retreat(World, it),
   [x \in {"it", "err"} |-> retreat_post(World, it)[x]],
   [x \in {"it", "err"} |-> const_retreat_post(World, it)[x]]}

\* C17: with stops the entries of a container in order followed by end(), an
\* increment of the cursor at stop i moves it to stop i + 1 and throws
\* invalid_iterator at end(); a decrement moves it to stop i - 1 and throws
\* invalid_iterator at the first stop (its predecessor is the head
\* sentinel); both throw on the null cursor; a throwing step leaves the
\* cursor where it was, and no step puts a cursor on the head sentinel.
C17_Stepping ==
  Callable => \A m \in MapIds :
    LET stops == Order(World, m) \o <<maps[m].tail>>
        last_stop == Len(stops)
    IN  /\ \A i \in 1 .. last_stop :
             LET it == Cursor(stops[i], m)
             IN  /\ \A r \in Advanced(it) :
                      /\ r.it.node # maps[m].head
                      /\ IF i = last_stop
                           THEN r = [it |-> it, err |-> "invalid_iterator"]
                           ELSE r = [it |-> Cursor(stops[i + 1], m), err |-> "none"]
                 /\ \A r \in Retreated(it) :
                      /\ r.it.node # maps[m].head
                      /\ IF i = 1
                           THEN r = [it |-> it, err |-> "invalid_iterator"]
                           ELSE r = [it |-> Cursor(stops[i - 1], m), err |-> "none"]
        /\ \A r \in Advanced(NullCursor) \cup Retreated(NullCursor) :
             r = [it |-> NullCursor, err |-> "invalid_iterator"]

\* a decrement of begin() of a container with several entries threw
C17_Witness ==
  /\ last.op = "retreat"
  /\ last.err = "invalid_iterator"
  /\ last.pos = begin(World, last.m)
  /\ last.pos # end(World, last.m)
  /\ maps[last.m].element_count >= 2

\* C18: when the insert of an absent key has to grow the table and the
\* allocation of the new bucket array, or of a bucket entry in rehash, throws,
\* the exception reaches the caller and heap and container are what they were
\* before the call: chains, table_size, element_count and order list as
\* before, the key absent.
C18_GrowthFailureRollsBack ==
  Callable =>
    \A m \in MapIds :
      over_load(maps[m]) =>
        \A key \in OpKeys :
          find_node(World, m, key) = NULL =>
            \A val \in Vals, fail \in {"new_table", "rehash_bucket"} :
              LET r == insert(World, m, key, val, fail)
              IN  /\ r.err = "bad_alloc"
                  /\ ~r.inserted
                  /\ r.w = World
                  /\ find_node(r.w, m, key) = NULL
                  /\ Order(r.w, m) = Order(World, m)

\* an insert threw while it grew the table: the container is still at the
\* load threshold with its 16 buckets
C18_Witness ==
  /\ last.op = "insert"
  /\ last.err = "bad_alloc"
  /\ over_load(maps[last.m])
  /\ maps[last.m].table_size = INITIAL_CAPACITY
  /\ maps[last.m].element_count = Len(ghost[last.m])

\* a sequence back to front
Reverse(s) == [i \in 1 .. Len(s) |-> s[Len(s) + 1 - i]]

\* C19: in a container that holds entries, -- on end() succeeds and lands on
\* the entry inserted last among the live ones; decrementing from there until
\* begin() visits the entries in the reverse of the forward order; and the
\* links agree both ways: n.next.prev = n and n.prev.next = n for every entry,
\* head.next.prev = head and tail.prev.next = tail.
C19_BackwardIteration ==
  \A m \in MapIds :
    LET order == Order(World, m)
        head == maps[m].head
        tail == maps[m].tail
        r == retreat(World, end(World, m))
    IN  /\ \A n \in Range(order) :
             heap[heap[n].next].prev = n /\ heap[heap[n].prev].next = n
        /\ heap[heap[head].next].prev = head
        /\ heap[heap[tail].prev].next = tail
        /\ order # <<>> =>
             /\ r.err = "none"
             /\ r.it = Cursor(order[Len(order)], m)
             /\ heap[r.it.node].data[1] = ghost[m][Len(ghost[m])][1]
             /\ iterate_back(World, r.it, begin(World, m)) = Reverse(order)

\* -- on end() landed on the last entry of a container of several entries,
\* the entry of an explored key
C19_Witness ==
  /\ last.op = "retreat"
  /\ last.err = "none"
  /\ last.pos.node \in Range(Order(World, last.m))
  /\ heap[last.pos.node].next = maps[last.m].tail
  /\ heap[last.pos.node].data[1] \in OpKeys
  /\ maps[last.m].element_count >= 2

\* C20: a key that was erased and is inserted again is a new entry: the insert
\* reports a creation, the entry is the last of the iteration order (the
\* other entries keep their order), it holds the value of this insert, and
\* find returns it. Stated for the erase of a probed entry followed by the
\* insert of its key, and for the insert that follows an erase in a run.
C20_ReinsertIsNewEntry ==
  /\ last.again =>
       LET order == Order(World, last.m)
       IN  /\ last.inserted
           /\ order # <<>>
           /\ heap[order[Len(order)]].data[1] = last.key
           /\ heap[order[Len(order)]].data = ghost[last.m][Len(ghost[last.m])]
  /\ Callable =>
       \A m \in MapIds :
         LET order == Order(World, m)
         IN  \A p \in Probes(m) :
               LET key == heap[p].data[1]
                   e == erase(World, m, find(World, m, key))
               IN  \A val \in Vals :
                     LET r == insert(e.w, m, key, val, "none")
                     IN  /\ e.err = "none" /\ r.err = "none"
                         /\ r.inserted
                         /\ r.w.heap[r.node].data = <<key, val>>
                         /\ Order(r.w, m) = Append(SeqWithout(order, p), r.node)
                         /\ find(r.w, m, key) = Cursor(r.node, m)
                         /\ size(r.w, m) = size(World, m)

\* the entry of an explored key was erased and the key inserted again, into a
\* container of several entries
C20_Witness ==
  /\ last.op = "insert"
  /\ last.again
  /\ last.inserted
  /\ last.key \in OpKeys
  /\ last.key \in KeysOf(ghost[last.m])
  /\ Len(ghost[last.m]) >= 2
====
